---- MODULE Spec2Model ----
(***************************************************************************)
(* A model of wxMaxima's MathParser (src/src/MathParser.cpp): the          *)
(* recursive translation of a tree of XML nodes into chains of cells.      *)
(*                                                                         *)
(* A node is a record [tag, attrs, kids, content]; a text node has the tag *)
(* "#text".  A chain of cells (a list linked by m_next) is a sequence of   *)
(* cell records, the empty sequence standing for the NULL pointer.  Every  *)
(* cell carries in "from" the path of the node it was allocated for, which *)
(* plays the part of the object's identity.                                *)
(*                                                                         *)
(* The parser's operations are operators over a machine record m that is   *)
(* threaded through every call: the parser's fields (m_highlight as hl,    *)
(* m_FracStyle as fs, m_ParserStyle as ps), what it read from the          *)
(* configuration store, and the effects of the call so far (message boxes  *)
(* shown, ParseTag invocations, null dereferences, cells left unattached,  *)
(* ParseTag invocations that returned with another m_highlight or          *)
(* m_FracStyle than they were entered with).                               *)
(***************************************************************************)
EXTENDS Integers, Sequences, FiniteSets, TLC

VARIABLES
  pc,                \* "idle", "done" (a call has returned) or "crashed"
  call,              \* the last call and its arguments
  result,            \* what the last call returned and did
  m_ParserStyle,     \* MathParser's fields
  m_FracStyle,
  m_highlight,
  m_displayedDigits,
  config,            \* the configuration store
  nullDeref          \* what this build does on a null dereference

vars == <<pc, call, result, m_ParserStyle, m_FracStyle, m_highlight,
          m_displayedDigits, config, nullDeref>>

----------------------------------------------------------------------------
(* Bounds of the model *)

\* longest number literal handed to ParseText
MaxLitLen == 102
\* longest sibling list handed to ParseTag
MaxSiblings == 3
\* most children of a composite node handed to a tag handler
MaxKids == 4
\* longest list of children of the document root handed to ParseLine
MaxDocLen == 2
\* most children of a fold node
MaxFoldKids == 2
\* most children of an image cell
MaxImageKids == 3

----------------------------------------------------------------------------
(* Strings are sequences of one-character strings *)

Digits == <<"0", "1", "2", "3", "4", "5", "6", "7", "8", "9">>

DigitChar(d) == Digits[d + 1]

IsDigitString(s) == \A i \in 1..Len(s) : \E d \in 0..9 : s[i] = DigitChar(d)

\* the decimal digits of n >= 0, as "%i" prints them
RECURSIVE IntToStr(_)
IntToStr(n) ==
  IF n < 10 THEN <<DigitChar(n)>>
  ELSE IntToStr(n \div 10) \o <<DigitChar(n % 10)>>

\* wxString::Format("[%i digits]", n), n >= 0
FormatDigits(n) ==
  <<"[">> \o IntToStr(n) \o <<" ", "d", "i", "g", "i", "t", "s", "]">>

\* wxString::Left / wxString::Right
Left(s, n) == SubSeq(s, 1, IF n < Len(s) THEN n ELSE Len(s))

Right(s, n) == SubSeq(s, (IF n < Len(s) THEN Len(s) - n ELSE 0) + 1, Len(s))

\* str.Replace("-", U+2212): every minus becomes the unicode minus sign
ReplaceMinus(s) == [i \in 1..Len(s) |-> IF s[i] = "-" THEN "U+2212" ELSE s[i]]

\* the literal "1234567890123..." of length n
CountingLiteral(n) == [i \in 1..n |-> DigitChar(i % 10)]

----------------------------------------------------------------------------
(* XML nodes *)

Elem(tag, attrs, kids) ==
  [tag |-> tag, attrs |-> attrs, kids |-> kids, content |-> <<>>]

TextNode(s) == [tag |-> "#text", attrs |-> {}, kids |-> <<>>, content |-> s]

\* the NULL node pointer
NoNode == [tag |-> "#null", attrs |-> {}, kids |-> <<>>, content |-> <<>>]

\* node->GetChildren(): the first child or NULL
GetChildren(node) == IF node.kids = <<>> THEN NoNode ELSE node.kids[1]

HasAttribute(node, name) == \E a \in node.attrs : a[1] = name

\* node->GetAttribute(name, default)
GetAttribute(node, name, default) ==
  IF HasAttribute(node, name)
  THEN (CHOOSE a \in node.attrs : a[1] = name)[2]
  ELSE default

IsElement(node) == node.tag # "#text"

----------------------------------------------------------------------------
(* Cells *)

\* a freshly constructed cell: no flag set, no link, no value.  m_next is
\* the cell's successor in its chain; nextToDraw says where m_nextToDraw
\* points: "NULL", or "m_next" when it points to the same cell as m_next.
NewCell(kind, path) ==
  [kind |-> kind, from |-> path, type |-> "MC_TYPE_DEFAULT",
   style |-> "TS_DEFAULT", value |-> <<>>, hl |-> FALSE, hidden |-> FALSE,
   forceBreakLine |-> FALSE, breakLine |-> FALSE, altCopyText |-> "",
   variant |-> "", flags |-> {}, slots |-> <<>>, nextToDraw |-> "NULL"]

\* Cell::ForceBreakLine
ForceBreakLine(cell, force) ==
  [cell EXCEPT !.forceBreakLine = force, !.breakLine = force]

\* Cell::SetAltCopyText
SetAltCopyText(cell, text) == [cell EXCEPT !.altCopyText = text]

\* cell->AppendCell(p_next): p_next is linked behind the last cell of the
\* list, in the sibling chain and in the draw order; appending NULL
\* changes nothing
AppendCell(chain, p_next) ==
  IF p_next = <<>> THEN chain
  ELSE [chain EXCEPT ![Len(chain)].nextToDraw = "m_next"] \o p_next

\* the chain with its first cell replaced by cell
OnHead(chain, cell) == <<cell>> \o Tail(chain)

\* a named child slot of a composite cell
Slot(name, chain) == [name |-> name, chain |-> chain]

\* the chains of a sequence of chains, one after the other
RECURSIVE Flatten(_)
Flatten(lists) ==
  IF lists = <<>> THEN <<>> ELSE Head(lists) \o Flatten(Tail(lists))

----------------------------------------------------------------------------
(* The machine record threaded through a call *)

\* the parser at the start of a call: its fields, the configuration store
\* and the build's behaviour on a null dereference; no effect yet
Machine(ps, fs, hl, dd, cfg, nd) ==
  [ps |-> ps, fs |-> fs, hl |-> hl, digits |-> dd, config |-> cfg, nd |-> nd,
   warns |-> 0, calls |-> 0, derefs |-> 0,
   hides |-> 0, crashed |-> FALSE, lost |-> <<>>, unrestored |-> 0]

\* a member is accessed through a NULL pointer: undefined behaviour.  The
\* build either traps (the call never returns) or goes on as if the
\* statement were not there.
NullDeref(m) ==
  IF m.crashed THEN m
  ELSE [m EXCEPT !.derefs = @ + 1, !.crashed = (m.nd = "trap")]

\* the value of a call: the machine after it and the chain it returns
Ret(m, chain) == [m |-> m, chain |-> chain]

----------------------------------------------------------------------------
(* ParseText *)

\* m_displayedDigits = 100; config->Read("displayedDigits", &m_displayedDigits);
\* if (m_displayedDigits < 10) m_displayedDigits = 10;
DisplayedDigits(cfg) ==
  LET read == IF cfg.hasDigits THEN cfg.displayedDigits ELSE 100
  IN IF read < 10 THEN 10 ELSE read

\* the shortening with the test Length() >= displayedDigits
TruncateNumberAtCutoff(str, displayedDigits) ==
  IF Len(str) >= displayedDigits
  THEN LET l == displayedDigits \div 3
           left == IF l > 30 THEN 30 ELSE l
       IN Left(str, left) \o FormatDigits(Len(str) - 2 * left)
            \o Right(str, left)
  ELSE str

\* the shortening of a number literal longer than displayedDigits
TruncateNumber(str, displayedDigits) ==
  IF Len(str) > displayedDigits
  THEN LET l == displayedDigits \div 3
           left == IF l > 30 THEN 30 ELSE l
       IN Left(str, left) \o FormatDigits(Len(str) - 2 * left)
            \o Right(str, left)
  ELSE str

\* MathParser::ParseText(node, style); node may be NoNode
ParseText(node, style, m, path) ==
  LET cell == NewCell("TextCell", path)
  IN IF m.crashed THEN Ret(m, <<>>)
     ELSE IF node # NoNode /\ node.content # <<>>
     THEN LET str1 == ReplaceMinus(node.content)
              dd   == DisplayedDigits(m.config)
              str  == IF style = "TS_NUMBER"
                      THEN TruncateNumber(str1, dd) ELSE str1
              m1   == IF style = "TS_NUMBER"
                      THEN [m EXCEPT !.digits = dd] ELSE m
          IN Ret(m1, <<[cell EXCEPT
                         !.type = IF style # "TS_ERROR"
                                  THEN m.ps ELSE "MC_TYPE_ERROR",
                         !.style = style, !.hl = m.hl, !.value = str]>>)
     ELSE Ret(m, <<cell>>)

\* wxString::Format("%c", code) for the codes the inputs use
CharOfCode(digits) ==
  CASE digits = <<"6", "5">> -> "A"
    [] digits = <<"9", "7">> -> "a"
    [] OTHER -> "?"

\* MathParser::ParseCharCode(node, style): a decimal code becomes one
\* character, anything else stays as it is
ParseCharCode(node, style, m, path) ==
  LET cell == NewCell("TextCell", path)
  IN IF m.crashed THEN Ret(m, <<>>)
     ELSE IF node # NoNode /\ node.content # <<>>
     THEN LET str == IF IsDigitString(node.content)
                     THEN <<CharOfCode(node.content)>>
                     ELSE node.content
          IN Ret(m, <<[cell EXCEPT !.value = str, !.type = m.ps,
                                  !.style = style, !.hl = m.hl]>>)
     ELSE Ret(m, <<cell>>)

----------------------------------------------------------------------------
(* The handlers of the composite tags.  ParseTag(nodes, i, all, m, path)   *)
(* is ParseTag(node, all) for the node nodes[i] (NULL when i is past the   *)
(* end), whose parent has the path "path".                                 *)

RECURSIVE ParseTag(_, _, _, _, _)
RECURSIVE ParseTagLoop(_, _, _, _, _)
RECURSIVE Dispatch(_, _, _)
RECURSIVE ParseCellTag(_, _, _)

\* a composite cell as its handler completes it
Composite(kind, path, m, hl, variant, flags, slots) ==
  [NewCell(kind, path) EXCEPT !.hl = hl, !.variant = variant,
     !.flags = flags, !.slots = slots, !.type = m.ps,
     !.style = "TS_VARIABLE"]

\* c->SetExponentFlag() on the head of the chain r returned by ParseTag
SetExponentFlag(r) ==
  IF r.chain = <<>> THEN Ret(NullDeref(r.m), <<>>)
  ELSE Ret(r.m, OnHead(r.chain, [r.chain[1] EXCEPT !.flags = @ \cup {"exponent"}]))

\* ParseFracTag without the test for the second child
ParseFracTagNoCheck(node, m, path) ==
  LET num == ParseTag(node.kids, 1, FALSE, m, path)
  IN IF Len(node.kids) >= 1
     THEN Ret(num.m, <<Composite("FracCell", path, m, m.hl, m.fs, {},
                 <<Slot("num", num.chain), Slot("denom", <<>>)>>)>>)
     ELSE Ret(m, <<>>)

\* MathParser::ParseFracTag
ParseFracTag(node, m, path) ==
  LET n == Len(node.kids)
      num == ParseTag(node.kids, 1, FALSE, m, path)
      denom == ParseTag(node.kids, 2, FALSE, num.m, path)
      style == IF GetAttribute(node, "diffstyle", "") = "yes" THEN "FC_DIFF"
               ELSE IF GetAttribute(node, "line", "") = "no" THEN "FC_CHOOSE"
               ELSE m.fs
  IN IF n >= 1
     THEN IF n >= 2
          THEN Ret(denom.m, <<Composite("FracCell", path, m, m.hl, style, {},
                     <<Slot("num", num.chain), Slot("denom", denom.chain)>>)>>)
          ELSE Ret(num.m, <<>>)
     ELSE Ret(m, <<>>)

\* ParseDiffTag without the assignment m_FracStyle = fc after the first
\* child
ParseDiffTagNoRestore(node, m, path) ==
  LET n == Len(node.kids)
      diff == ParseTag(node.kids, 1, FALSE, [m EXCEPT !.fs = "FC_DIFF"], path)
      base == ParseTag(node.kids, 2, TRUE, diff.m, path)
  IN IF n >= 1
     THEN IF n >= 2
          THEN Ret(base.m, <<Composite("DiffCell", path, m, FALSE, "", {},
                     <<Slot("diff", diff.chain), Slot("base", base.chain)>>)>>)
          ELSE Ret(diff.m, <<>>)
     ELSE Ret(m, <<>>)

\* MathParser::ParseDiffTag: the first child is parsed under the derivative
\* fraction style, the second with all its following siblings
ParseDiffTag(node, m, path) ==
  LET n == Len(node.kids)
      fc == m.fs
      d0 == ParseTag(node.kids, 1, FALSE, [m EXCEPT !.fs = "FC_DIFF"], path)
      diff == Ret([d0.m EXCEPT !.fs = IF d0.m.crashed THEN @ ELSE fc], d0.chain)
      base == ParseTag(node.kids, 2, TRUE, diff.m, path)
  IN IF n >= 1
     THEN IF n >= 2
          THEN Ret(base.m, <<Composite("DiffCell", path, m, FALSE, "", {},
                     <<Slot("diff", diff.chain), Slot("base", base.chain)>>)>>)
          ELSE Ret(diff.m, <<>>)
     ELSE Ret(m, <<>>)

\* MathParser::ParseSupTag
ParseSupTag(node, m, path) ==
  LET n == Len(node.kids)
      base == ParseTag(node.kids, 1, FALSE, m, path)
      power == SetExponentFlag(ParseTag(node.kids, 2, FALSE, base.m, path))
      flags == IF node.attrs # {} THEN {"matrix"} ELSE {}
  IN IF n >= 1
     THEN IF n >= 2
          THEN Ret(power.m, <<Composite("ExptCell", path, m, FALSE, "", flags,
                     <<Slot("base", base.chain), Slot("power", power.chain)>>)>>)
          ELSE Ret(base.m, <<>>)
     ELSE Ret(m, <<>>)

\* MathParser::ParseSubSupTag
ParseSubSupTag(node, m, path) ==
  LET n == Len(node.kids)
      base == ParseTag(node.kids, 1, FALSE, m, path)
      index == SetExponentFlag(ParseTag(node.kids, 2, FALSE, base.m, path))
      power == SetExponentFlag(ParseTag(node.kids, 3, FALSE, index.m, path))
  IN IF n >= 1
     THEN IF n >= 2
          THEN IF n >= 3
               THEN Ret(power.m, <<Composite("SubSupCell", path, m, FALSE, "", {},
                          <<Slot("base", base.chain), Slot("index", index.chain),
                            Slot("exponent", power.chain)>>)>>)
               ELSE Ret(index.m, <<>>)
          ELSE Ret(base.m, <<>>)
     ELSE Ret(m, <<>>)

\* MathParser::ParseSubTag
ParseSubTag(node, m, path) ==
  LET n == Len(node.kids)
      base == ParseTag(node.kids, 1, FALSE, m, path)
      index == SetExponentFlag(ParseTag(node.kids, 2, FALSE, base.m, path))
  IN IF n >= 1
     THEN IF n >= 2
          THEN Ret(index.m, <<Composite("SubCell", path, m, FALSE, "", {},
                     <<Slot("base", base.chain), Slot("index", index.chain)>>)>>)
          ELSE Ret(base.m, <<>>)
     ELSE Ret(m, <<>>)

\* MathParser::ParseAtTag
ParseAtTag(node, m, path) ==
  LET n == Len(node.kids)
      base == ParseTag(node.kids, 1, FALSE, m, path)
      index == ParseTag(node.kids, 2, FALSE, base.m, path)
  IN IF n >= 1
     THEN IF n >= 2
          THEN Ret(index.m, <<Composite("AtCell", path, m, m.hl, "", {},
                     <<Slot("base", base.chain), Slot("index", index.chain)>>)>>)
          ELSE Ret(base.m, <<>>)
     ELSE Ret(m, <<>>)

\* MathParser::ParseFunTag
ParseFunTag(node, m, path) ==
  LET n == Len(node.kids)
      name == ParseTag(node.kids, 1, FALSE, m, path)
      arg == ParseTag(node.kids, 2, FALSE, name.m, path)
  IN IF n >= 1
     THEN IF n >= 2
          THEN Ret(arg.m, <<Composite("FunCell", path, m, FALSE, "", {},
                     <<Slot("name", name.chain), Slot("arg", arg.chain)>>)>>)
          ELSE Ret(name.m, <<>>)
     ELSE Ret(m, <<>>)

\* ParseSqrtTag, ParseAbsTag, ParseConjugateTag, ParseParenTag: the inner
\* chain is ParseTag(node->GetChildren(), true); a cell is always returned
ParseUnaryTag(kind, node, m, path) ==
  LET inner == ParseTag(node.kids, 1, TRUE, m, path)
  IN Ret(inner.m, <<Composite(kind, path, m, m.hl, "", {},
                      <<Slot("inner", inner.chain)>>)>>)

ParseSqrtTag(node, m, path) == ParseUnaryTag("SqrtCell", node, m, path)

ParseAbsTag(node, m, path) == ParseUnaryTag("AbsCell", node, m, path)

ParseConjugateTag(node, m, path) ==
  ParseUnaryTag("ConjugateCell", node, m, path)

\* MathParser::ParseParenTag: any attribute on the node suppresses printing
ParseParenTag(node, m, path) ==
  LET r == ParseUnaryTag("ParenCell", node, m, path)
  IN IF node.attrs # {}
     THEN Ret(r.m, <<[r.chain[1] EXCEPT !.flags = {"noprint"}]>>)
     ELSE r

\* MathParser::ParseLimitTag
ParseLimitTag(node, m, path) ==
  LET n == Len(node.kids)
      name == ParseTag(node.kids, 1, FALSE, m, path)
      under == ParseTag(node.kids, 2, FALSE, name.m, path)
      base == ParseTag(node.kids, 3, FALSE, under.m, path)
  IN IF n >= 1
     THEN IF n >= 2
          THEN IF n >= 3
               THEN Ret(base.m, <<Composite("LimitCell", path, m, FALSE, "", {},
                          <<Slot("name", name.chain), Slot("under", under.chain),
                            Slot("base", base.chain)>>)>>)
               ELSE Ret(under.m, <<>>)
          ELSE Ret(name.m, <<>>)
     ELSE Ret(m, <<>>)

\* ParseSumTag taking the base of an "lsum" node from its second child
ParseSumTagLsumOfTwo(node, m, path) ==
  LET n == Len(node.kids)
      type == GetAttribute(node, "type", "sum")
      style == IF type = "prod" THEN "SM_PROD" ELSE "SM_SUM"
      under == ParseTag(node.kids, 1, FALSE, m, path)
      over == IF type # "lsum"
              THEN ParseTag(node.kids, 2, FALSE, under.m, path)
              ELSE Ret(under.m, <<>>)
      base == ParseTag(node.kids, IF type # "lsum" THEN 3 ELSE 2, FALSE,
                       over.m, path)
  IN IF n >= (IF type # "lsum" THEN 3 ELSE 2)
     THEN Ret(base.m, <<Composite("SumCell", path, m, m.hl, style, {},
                <<Slot("under", under.chain), Slot("over", over.chain),
                  Slot("base", base.chain)>>)>>)
     ELSE Ret(m, <<>>)

\* MathParser::ParseSumTag: the second child is skipped, not parsed, for
\* the type "lsum"; a third child is required whatever the type
ParseSumTag(node, m, path) ==
  LET n == Len(node.kids)
      type == GetAttribute(node, "type", "sum")
      style == IF type = "prod" THEN "SM_PROD" ELSE "SM_SUM"
      under == ParseTag(node.kids, 1, FALSE, m, path)
      over == IF type # "lsum"
              THEN ParseTag(node.kids, 2, FALSE, under.m, path)
              ELSE Ret(under.m, <<>>)
      base == ParseTag(node.kids, 3, FALSE, over.m, path)
  IN IF n >= 1
     THEN IF n >= 2
          THEN IF n >= 3
               THEN Ret(base.m, <<Composite("SumCell", path, m, m.hl, style, {},
                          <<Slot("under", under.chain), Slot("over", over.chain),
                            Slot("base", base.chain)>>)>>)
               ELSE Ret(over.m, <<>>)
          ELSE Ret(under.m, <<>>)
     ELSE Ret(m, <<>>)

\* MathParser::ParseIntTag: a node without attributes is a definite
\* integral (under, over, base, var), any other an indefinite one
ParseIntTag(node, m, path) ==
  LET n == Len(node.kids)
      under == ParseTag(node.kids, 1, FALSE, m, path)
      over == ParseTag(node.kids, 2, FALSE, under.m, path)
      base == ParseTag(node.kids, 3, FALSE, over.m, path)
      var == ParseTag(node.kids, 4, TRUE, base.m, path)
      ibase == ParseTag(node.kids, 1, FALSE, m, path)
      ivar == ParseTag(node.kids, 2, TRUE, ibase.m, path)
  IN IF node.attrs = {}
     THEN IF n >= 1
          THEN IF n >= 2
               THEN IF n >= 3
                    THEN IF n >= 4
                         THEN Ret(var.m, <<Composite("IntCell", path, m, m.hl,
                                    "INT_DEF", {},
                                    <<Slot("under", under.chain),
                                      Slot("over", over.chain),
                                      Slot("base", base.chain),
                                      Slot("var", var.chain)>>)>>)
                         ELSE Ret(base.m, <<>>)
                    ELSE Ret(over.m, <<>>)
               ELSE Ret(under.m, <<>>)
          ELSE Ret(m, <<>>)
     ELSE IF n >= 1
          THEN IF n >= 2
               THEN Ret(ivar.m, <<Composite("IntCell", path, m, m.hl,
                          "INT_IDEF", {},
                          <<Slot("base", ibase.chain),
                            Slot("var", ivar.chain)>>)>>)
               ELSE Ret(ibase.m, <<>>)
          ELSE Ret(m, <<>>)

\* MathParser::ParseTableTag: every cell of every row is parsed on its own
RECURSIVE ParseRow(_, _, _, _, _)
ParseRow(cells, j, m, path, acc) ==
  IF j > Len(cells) THEN [m |-> m, row |-> acc]
  ELSE LET c == ParseTag(cells, j, FALSE, m, path)
       IN ParseRow(cells, j + 1, c.m, path, Append(acc, c.chain))

RECURSIVE ParseRows(_, _, _, _, _)
ParseRows(rows, i, m, path, acc) ==
  IF i > Len(rows) THEN [m |-> m, rows |-> acc]
  ELSE LET r == ParseRow(rows[i].kids, 1, m, Append(path, i), <<>>)
       IN ParseRows(rows, i + 1, r.m, path, Append(acc, Slot("row", r.row)))

ParseTableTag(node, m, path) ==
  LET inference == GetAttribute(node, "inference", "false") = "true"
      flags == (IF GetAttribute(node, "special", "false") = "true" \/ inference
                THEN {"special"} ELSE {})
               \cup (IF inference THEN {"inference"} ELSE {})
               \cup (IF GetAttribute(node, "colnames", "false") = "true"
                     THEN {"colnames"} ELSE {})
               \cup (IF GetAttribute(node, "rownames", "false") = "true"
                     THEN {"rownames"} ELSE {})
      r == ParseRows(node.kids, 1, m, path, <<>>)
  IN Ret(r.m, <<Composite("MatrCell", path, m, m.hl, "", flags, r.rows)>>)

\* MathParser::ParseEditorTag: the contents of the "line" children, joined
\* by newlines
RECURSIVE EditorText(_, _, _)
EditorText(lines, i, text) ==
  IF i > Len(lines) THEN text
  ELSE IF lines[i].tag = "line"
       THEN EditorText(lines, i + 1,
              (IF text # <<>> THEN text \o <<"\n">> ELSE text)
                \o (IF lines[i].kids = <<>> THEN <<>>
                    ELSE lines[i].kids[1].content))
       ELSE EditorText(lines, i + 1, text)

ParseEditorTag(node, m, path) ==
  LET type == GetAttribute(node, "type", "input")
      mc == CASE type = "input" -> "MC_TYPE_INPUT"
              [] type = "text" -> "MC_TYPE_TEXT"
              [] type = "title" -> "MC_TYPE_TITLE"
              [] type = "section" -> "MC_TYPE_SECTION"
              [] type = "subsection" -> "MC_TYPE_SUBSECTION"
              [] type = "subsubsection" -> "MC_TYPE_SUBSUBSECTION"
              [] OTHER -> "MC_TYPE_DEFAULT"
  IN Ret(m, <<[NewCell("EditorCell", path) EXCEPT !.type = mc,
                 !.value = EditorText(node.kids, 1, <<>>)]>>)

----------------------------------------------------------------------------
(* ParseCellTag: a group cell from a "cell" node *)

\* a group under construction: its editable text, its output chain and
\* its folded tree
NewGroup(m) == [m |-> m, content |-> <<>>, output |-> <<>>, tree |-> <<>>]

\* editor->GetValue() on the head of the chain returned for an editor
SetEditableContent(g, r) ==
  IF r.chain = <<>> THEN [g EXCEPT !.m = NullDeref(r.m)]
  ELSE [g EXCEPT !.m = r.m, !.content = r.chain[1].value]

\* group->AppendOutput(chain)
AppendOutput(g, r) ==
  [g EXCEPT !.m = r.m,
            !.output = IF @ = <<>> THEN r.chain ELSE AppendCell(@, r.chain)]

\* lines 88-102: the children of a code cell
RECURSIVE CodeChildren(_, _, _, _)
CodeChildren(kids, k, g, path) ==
  IF k > Len(kids) \/ g.m.crashed THEN g
  ELSE LET r == ParseTag(kids[k].kids, 1, TRUE, g.m, Append(path, k))
       IN CodeChildren(kids, k + 1,
            CASE kids[k].tag = "input" -> SetEditableContent(g, r)
              [] kids[k].tag = "output" -> AppendOutput(g, r)
              [] OTHER -> g,
            path)

\* lines 105-115: the children of an image cell; a child that is no
\* editor is handed to ParseTag with all = true
RECURSIVE ImageChildren(_, _, _, _)
ImageChildren(kids, k, g, path) ==
  IF k > Len(kids) \/ g.m.crashed THEN g
  ELSE ImageChildren(kids, k + 1,
         IF kids[k].tag = "editor"
         THEN SetEditableContent(g, ParseEditorTag(kids[k], g.m, Append(path, k)))
         ELSE AppendOutput(g, ParseTag(kids, k, TRUE, g.m, path)),
         path)

\* lines 164-172: the folded cells after the first are linked behind
\* "last", a position in the tree (0 for NULL)
RECURSIVE FoldLoop(_, _, _, _)
FoldLoop(xmlcells, j, f, path) ==
  IF j > Len(xmlcells) \/ f.m.crashed THEN f
  ELSE LET c == ParseTag(xmlcells, j, FALSE, f.m, path)
           linked == IF f.last = 0
                     THEN [f EXCEPT !.m = NullDeref(NullDeref(NullDeref(
                                            [c.m EXCEPT !.lost = @ \o c.chain])))]
                     ELSE [f EXCEPT
                             !.m = LET m1 == [c.m EXCEPT !.lost = @ \o
                                           SubSeq(f.tree, f.last + 1, Len(f.tree))]
                                   IN IF c.chain = <<>> THEN NullDeref(m1) ELSE m1,
                             !.tree =
                               SubSeq(f.tree, 1, f.last - 1)
                                 \o <<[f.tree[f.last] EXCEPT !.nextToDraw =
                                        IF c.chain = <<>> THEN "NULL"
                                        ELSE "m_next"]>>
                                 \o c.chain,
                             !.last = IF c.chain = <<>> THEN 0 ELSE f.last + 1]
       IN FoldLoop(xmlcells, j + 1, linked, path)

\* lines 159-175: the children of a fold node become the hidden tree
FoldChild(fold, g, path) ==
  IF fold.kids = <<>> THEN g
  ELSE LET first == ParseTag(fold.kids, 1, FALSE, g.m, path)
           f == FoldLoop(fold.kids, 2,
                  [m |-> first.m, tree |-> first.chain,
                   last |-> IF first.chain = <<>> THEN 0 ELSE 1], path)
       IN IF f.tree # <<>> /\ ~f.m.crashed
          THEN [g EXCEPT !.m = [f.m EXCEPT !.hides = @ + 1], !.tree = f.tree]
          ELSE [g EXCEPT !.m = f.m]

\* lines 151-178: the children of a title or sectioning cell
RECURSIVE TextChildren(_, _, _, _)
TextChildren(kids, k, g, path) ==
  IF k > Len(kids) \/ g.m.crashed THEN g
  ELSE TextChildren(kids, k + 1,
         CASE kids[k].tag = "editor" ->
                SetEditableContent(g, ParseEditorTag(kids[k], g.m, Append(path, k)))
           [] kids[k].tag = "fold" -> FoldChild(kids[k], g, Append(path, k))
           [] OTHER -> g,
         path)

\* the group type with the sectioning level ignored
TextGroupTypeNoLevel(type, sectioning_level) ==
  CASE type = "title" -> "GC_TYPE_TITLE"
    [] type = "section" -> "GC_TYPE_SECTION"
    [] type = "subsection" -> "GC_TYPE_SUBSECTION"
    [] type = "subsubsection" -> "GC_TYPE_SUBSUBSECTION"
    [] OTHER -> ""

\* lines 128-147: the group type of a text-like cell, "" for none
TextGroupType(type, sectioning_level) ==
  CASE type = "title" -> "GC_TYPE_TITLE"
    [] type = "section" -> "GC_TYPE_SECTION"
    [] type = "subsection" ->
         IF sectioning_level # "4" THEN "GC_TYPE_SUBSECTION"
         ELSE "GC_TYPE_SUBSUBSECTION"
    [] type = "subsubsection" -> "GC_TYPE_SUBSUBSECTION"
    [] OTHER -> ""

ParseCellTag(node, m, path) ==
  LET hide == GetAttribute(node, "hide", "false") = "true"
      type == GetAttribute(node, "type", "text")
      sectioning_level == GetAttribute(node, "sectioning_level", "0")
      g0 == NewGroup(m)
      gtype == CASE type = "code" -> "GC_TYPE_CODE"
                 [] type = "image" -> "GC_TYPE_IMAGE"
                 [] type = "pagebreak" -> "GC_TYPE_PAGEBREAK"
                 [] type = "text" -> "GC_TYPE_TEXT"
                 [] OTHER -> TextGroupType(type, sectioning_level)
      g == CASE type = "code" -> CodeChildren(node.kids, 1, g0, path)
             [] type = "image" -> ImageChildren(node.kids, 1, g0, path)
             [] type = "pagebreak" -> g0
             [] type = "text" ->
                  SetEditableContent(g0, ParseTag(node.kids, 1, TRUE, m, path))
             [] OTHER -> TextChildren(node.kids, 1, g0, path)
  IN IF gtype = "" THEN Ret(m, <<>>)
     ELSE Ret(g.m, <<[NewCell("GroupCell", path) EXCEPT
                        !.variant = gtype, !.value = g.content,
                        !.flags = IF hide THEN {"hide"} ELSE {},
                        !.slots = <<Slot("output", g.output),
                                    Slot("hiddenTree", g.tree)>>]>>)

----------------------------------------------------------------------------
(* ParseTag *)

\* the text leaves of lines 655-747 and 857-864: tag name to text style
TextStyleOf(node) ==
  CASE node.tag = "v" -> "TS_VARIABLE"
    [] node.tag = "t" -> IF GetAttribute(node, "type", "") = "error"
                         THEN "TS_ERROR" ELSE "TS_DEFAULT"
    [] node.tag = "n" -> "TS_NUMBER"
    [] node.tag = "h" -> "TS_DEFAULT"
    [] node.tag = "g" -> "TS_GREEK_CONSTANT"
    [] node.tag = "s" -> "TS_SPECIAL_CONSTANT"
    [] node.tag = "fnm" -> "TS_FUNCTION"
    [] node.tag = "st" -> "TS_STRING"
    [] node.tag = "lbl" -> IF GetAttribute(node, "userdefined", "no") # "yes"
                           THEN "TS_LABEL" ELSE "TS_USERLABEL"

TextTags == {"v", "t", "n", "h", "g", "s", "fnm", "st", "lbl"}

\* lines 876-930: an image or a slide show; the file names are the content
\* of the first child, read without a check that there is one
ParseImage(kind, node, m, path) ==
  LET m1 == IF node.kids = <<>> THEN NullDeref(m) ELSE m
      name == IF node.kids = <<>> THEN <<>> ELSE node.kids[1].content
      flags == IF kind = "ImgCell"
                  /\ GetAttribute(node, "rect", "true") = "false"
               THEN {"norect"} ELSE {}
  IN Ret(m1, <<[NewCell(kind, path) EXCEPT !.value = name, !.flags = flags]>>)

\* lines 651-967: what the handler of one node yields, NULL (the empty
\* chain) when the tag is unknown and the node has no children
Dispatch(node, m, p) ==
  LET tag == node.tag
  IN CASE ~IsElement(node) -> ParseText(node, "TS_DEFAULT", m, p)
       [] tag \in TextTags ->
            LET r == ParseText(GetChildren(node), TextStyleOf(node), m, p)
            IN IF r.chain = <<>> THEN r
               ELSE IF tag = "h"
               THEN Ret(r.m, <<[r.chain[1] EXCEPT !.hidden = TRUE]>>)
               ELSE IF tag = "lbl"
               THEN Ret(r.m, <<ForceBreakLine(r.chain[1], TRUE)>>)
               ELSE r
       [] tag = "p" -> ParseParenTag(node, m, p)
       [] tag = "f" -> ParseFracTag(node, m, p)
       [] tag = "e" -> ParseSupTag(node, m, p)
       [] tag = "i" -> ParseSubTag(node, m, p)
       [] tag = "fn" -> ParseFunTag(node, m, p)
       [] tag = "q" -> ParseSqrtTag(node, m, p)
       [] tag = "d" -> ParseDiffTag(node, m, p)
       [] tag = "sm" -> ParseSumTag(node, m, p)
       [] tag = "in" -> ParseIntTag(node, m, p)
       [] tag = "mspace" ->
            Ret(m, <<[NewCell("TextCell", p) EXCEPT !.value = <<" ">>]>>)
       [] tag = "at" -> ParseAtTag(node, m, p)
       [] tag = "a" -> ParseAbsTag(node, m, p)
       [] tag = "cj" -> ParseConjugateTag(node, m, p)
       [] tag = "ie" -> ParseSubSupTag(node, m, p)
       [] tag = "lm" -> ParseLimitTag(node, m, p)
       [] tag = "r" -> ParseTag(node.kids, 1, TRUE, m, p)
       [] tag = "tb" -> ParseTableTag(node, m, p)
       [] tag \in {"mth", "line"} ->
            LET tmp == ParseTag(node.kids, 1, TRUE, m, p)
            IN IF tmp.m.crashed THEN tmp
               ELSE IF tmp.chain # <<>>
               THEN Ret(tmp.m, OnHead(tmp.chain, ForceBreakLine(tmp.chain[1], TRUE)))
               ELSE Ret(tmp.m, <<[NewCell("TextCell", p) EXCEPT !.value = <<" ">>]>>)
       [] tag = "hl" ->
            LET highlight == m.hl
                tmp == ParseTag(node.kids, 1, TRUE, [m EXCEPT !.hl = TRUE], p)
            IN IF tmp.m.crashed THEN tmp
               ELSE Ret([tmp.m EXCEPT !.hl = highlight], tmp.chain)
       [] tag = "img" -> ParseImage("ImgCell", node, m, p)
       [] tag = "slide" -> ParseImage("SlideShow", node, m, p)
       [] tag = "editor" -> ParseEditorTag(node, m, p)
       [] tag = "cell" -> ParseCellTag(node, m, p)
       [] tag = "ascii" -> ParseCharCode(GetChildren(node), "TS_DEFAULT", m, p)
       [] node.kids # <<>> -> ParseTag(node.kids, 1, TRUE, m, p)
       [] OTHER -> Ret(m, <<>>)

\* the NULL cell pointer; a cell pointer is a list of the loop and a
\* position in it
NullCell == [list |-> 0, pos |-> 0]

\* the locals of ParseTag at the top of the loop: the lists built so far,
\* the cursor "cell", the head "tmp" (the number of its list, 0 for NULL)
\* and the flag "warning"
LoopInit(m, all) ==
  [m |-> m, lists |-> <<>>, cell |-> NullCell, tmp |-> 0, warning |-> all]

\* lines 651-967: the node's handler runs and its result becomes the
\* cursor (cell == NULL) or is appended behind the cursor's list
Attach(ls, r) ==
  IF ls.cell = NullCell
  THEN IF r.chain = <<>> THEN [ls EXCEPT !.m = r.m]
       ELSE [ls EXCEPT !.m = r.m, !.lists = Append(@, r.chain),
                       !.cell = [list |-> Len(ls.lists) + 1, pos |-> 1]]
  ELSE [ls EXCEPT !.m = r.m,
                  !.lists[ls.cell.list] = AppendCell(@, r.chain)]

\* lines 971-985: the first cell becomes the head, otherwise the cursor
\* moves one cell on; with no cell at the cursor the warning is shown once
Advance(ls) ==
  IF ls.cell # NullCell
  THEN IF ls.tmp = 0 THEN [ls EXCEPT !.tmp = ls.cell.list]
       ELSE IF ls.cell.pos < Len(ls.lists[ls.cell.list])
            THEN [ls EXCEPT !.cell.pos = @ + 1]
            ELSE [ls EXCEPT !.cell = NullCell]
  ELSE IF ls.warning
       THEN [ls EXCEPT !.m.warns = @ + 1, !.warning = FALSE]
       ELSE ls

\* lines 987-988: the altCopy attribute is set on the cell at the cursor
ApplyAltCopy(ls, node) ==
  IF HasAttribute(node, "altCopy")
  THEN IF ls.cell = NullCell THEN [ls EXCEPT !.m = NullDeref(@)]
       ELSE [ls EXCEPT !.lists[ls.cell.list][ls.cell.pos] =
                          SetAltCopyText(@, GetAttribute(node, "altCopy", ""))]
  ELSE ls

\* the loop without the break of line 968
ParseTagLoopNoBreak(nodes, i, all, ls, path) ==
  IF i > Len(nodes) \/ ls.m.crashed THEN ls
  ELSE LET ls1 == Attach(ls, Dispatch(nodes[i], ls.m, Append(path, i)))
       IN IF ls1.m.crashed THEN ls1
          ELSE ParseTagLoop(nodes, i + 1, all,
                            ApplyAltCopy(Advance(ls1), nodes[i]), path)

ParseTagLoop(nodes, i, all, ls, path) ==
  IF i > Len(nodes) \/ ls.m.crashed THEN ls
  ELSE LET ls1 == Attach(ls, Dispatch(nodes[i], ls.m, Append(path, i)))
       IN IF ~all \/ ls1.m.crashed THEN ls1
          ELSE ParseTagLoop(nodes, i + 1, all,
                            ApplyAltCopy(Advance(ls1), nodes[i]), path)

\* the chain that starts at a cell pointer
ChainAt(ls, c) ==
  IF c = NullCell THEN <<>>
  ELSE SubSeq(ls.lists[c.list], c.pos, Len(ls.lists[c.list]))

\* lines 993-995: the head if there is one, else the cursor; the lists
\* that are not returned are referenced by nothing
ParseTagReturn(ls) ==
  LET kept == IF ls.tmp # 0 THEN ls.tmp ELSE ls.cell.list
      others == [k \in 1..Len(ls.lists) |->
                   IF k = kept THEN <<>> ELSE ls.lists[k]]
  IN Ret([ls.m EXCEPT !.lost = @ \o Flatten(others)],
         IF ls.tmp # 0 THEN ls.lists[ls.tmp] ELSE ChainAt(ls, ls.cell))

\* MathParser::ParseTag(node, all); the invocation is counted, and counted
\* again as unrestored when it returns with m_highlight or m_FracStyle
\* other than on entry
ParseTag(nodes, i, all, m, path) ==
  IF m.crashed THEN Ret(m, <<>>)
  ELSE LET ls == ParseTagLoop(nodes, i, all,
                   LoopInit([m EXCEPT !.calls = @ + 1], all), path)
           r == ParseTagReturn(ls)
       IN IF ls.m.crashed THEN Ret(ls.m, <<>>)
          ELSE IF r.m.hl = m.hl /\ r.m.fs = m.fs THEN r
          ELSE Ret([r.m EXCEPT !.unrestored = @ + 1], r.chain)

----------------------------------------------------------------------------
(* ParseLine *)

\* the selector 0 taken for the cutoff of the selector 1
ShowLengthCutoffShifted(showLength) ==
  CASE showLength = 0 -> 500000
    [] showLength = 1 -> 500000
    [] showLength = 2 -> 5000000
    [] showLength = 3 -> 0
    [] OTHER -> showLength

\* lines 1013-1027: the showLength selector becomes a number of characters
ShowLengthCutoff(showLength) ==
  CASE showLength = 0 -> 50000
    [] showLength = 1 -> 500000
    [] showLength = 2 -> 5000000
    [] showLength = 3 -> 0
    [] OTHER -> showLength

\* line 1036: (s.Length() < showLength) || (showLength=0).  The second
\* operand is an assignment: it stores 0 and yields 0, which is false.
ShallParse(length, showLength) ==
  LET assigned == 0
  IN length < showLength \/ assigned # 0

\* the cell shown in place of an input that is too long
Placeholder ==
  ForceBreakLine([NewCell("TextCell", <<>>) EXCEPT
                    !.value = <<" << Expression too long to display! >>">>],
                 TRUE)

\* MathParser::ParseLine(s, style).  s is the string's length and the
\* document xml.Load makes of it (root = NoNode when there is none); the
\* replacement of control characters puts one character for one.
ParseLine(s, style, m) ==
  LET m1 == [m EXCEPT !.ps = style, !.fs = "FC_NORMAL", !.hl = FALSE]
  IN IF ShallParse(s.len, ShowLengthCutoff(m.config.showLength))
     THEN IF s.root # NoNode
          THEN ParseTag(s.root.kids, 1, TRUE, m1, <<>>)
          ELSE Ret(m1, <<>>)
     ELSE Ret(m1, <<Placeholder>>)

----------------------------------------------------------------------------
(* The inputs *)

SeqUpTo(S, n) == UNION {[1..k -> S] : k \in 0..n}

V == Elem("v", {}, <<TextNode(<<"a">>)>>)

\* a node with the attribute altCopy
WithAltCopy(node) == [node EXCEPT !.attrs = @ \cup {<<"altCopy", "c">>}]

\* an element of an unknown tag without children
X == Elem("x", {}, <<>>)

N == Elem("n", {}, <<TextNode(CountingLiteral(14))>>)

\* a fraction without its denominator
F1 == Elem("f", {}, <<V>>)

\* a row of two variables, a row that holds an unknown leaf
R2 == Elem("r", {}, <<V, V>>)

RX == Elem("r", {}, <<X>>)

HL == Elem("hl", {}, <<V>>)

SiblingAlphabet == {V, WithAltCopy(V), X, WithAltCopy(X), F1, R2, RX, HL}

SiblingLists == SeqUpTo(SiblingAlphabet, MaxSiblings)

CompositeTags ==
  {"f", "d", "e", "i", "ie", "at", "fn", "q", "a", "cj", "p", "lm", "sm", "in"}

Composites ==
  {Elem(t, a, k) : t \in CompositeTags, a \in {{}, {<<"type", "lsum">>}},
                   k \in SeqUpTo({V, X}, MaxKids)}

Documents ==
  {NoNode} \cup {Elem("doc", {}, k) : k \in SeqUpTo(SiblingAlphabet, MaxDocLen)}

\* the lengths around the three cutoffs
Lengths ==
  {0} \cup {c + d : c \in {50000, 500000, 5000000}, d \in {-1, 0, 1}}

Literals ==
  {CountingLiteral(n) : n \in 0..MaxLitLen}
    \cup {<<"-">> \o CountingLiteral(n) : n \in {1, 10, 13}}

\* the configuration store: both keys may be absent
DigitConfigs ==
  {[hasDigits |-> FALSE, displayedDigits |-> 0]}
    \cup {[hasDigits |-> TRUE, displayedDigits |-> d] : d \in {5, 12, 96}}

ConfigOf(showLength, dc) ==
  [showLength |-> showLength, hasDigits |-> dc.hasDigits,
   displayedDigits |-> dc.displayedDigits]

ParserStyles == {"MC_TYPE_DEFAULT", "MC_TYPE_LABEL"}

\* a hidden multiplication sign
H == Elem("h", {}, <<TextNode(<<"*">>)>>)

\* a fraction with both children
F2 == Elem("f", {}, <<V, V>>)

\* a derivative whose first child holds a fraction and a highlight wrapper
DF == Elem("d", {}, <<Elem("r", {}, <<F2, HL>>), F2>>)

\* line wrappers: without children, with children that yield nothing, with
\* one cell, with two
LineWrappers ==
  {Elem(t, {}, k) : t \in {"mth", "line"},
                    k \in {<<>>, <<X>>, <<V>>, <<V, V>>, <<HL, V>>}}

\* sibling lists around the wrappers of a context and of a line
WrapperLists ==
  {<<DF>>, <<DF, F2>>, <<HL, F2>>, <<Elem("hl", {}, <<DF>>), V>>,
   <<V, H, V>>, <<H, V>>}
    \cup {<<w>> : w \in LineWrappers}
    \cup {<<V, w>> : w \in LineWrappers}

Editor ==
  Elem("editor", {<<"type", "text">>}, <<Elem("line", {}, <<TextNode(<<"t">>)>>)>>)

Img == Elem("img", {}, <<TextNode(<<"i">>)>>)

\* the cells a fold node may hold: a text cell, a cell of a type this
\* parser does not know, a hidden marker
TextCellNode == Elem("cell", {<<"type", "text">>}, <<Editor>>)

BogusCellNode == Elem("cell", {<<"type", "bogus">>}, <<Editor>>)

Folds ==
  {Elem("fold", {}, k) :
     k \in SeqUpTo({TextCellNode, BogusCellNode, H}, MaxFoldKids)}

\* the attributes of a cell node apart from its type
CellAttrs ==
  {a \cup b : a \in {{}, {<<"sectioning_level", "0">>},
                      {<<"sectioning_level", "4">>},
                      {<<"sectioning_level", "5">>}},
              b \in {{}, {<<"hide", "true">>}}}

\* title and sectioning cells, and cells of an unknown type: an editor
\* or none, then no, one or two fold children
TextLikeCells ==
  {Elem("cell", {<<"type", t>>} \cup a, e \o f) :
     t \in {"title", "section", "subsection", "subsubsection", "bogus"},
     a \in CellAttrs,
     e \in {<<>>, <<Editor>>},
     f \in {<<>>} \cup {<<x>> : x \in Folds}
            \cup {<<Elem("fold", {}, <<TextCellNode>>), x>> : x \in Folds}}

ImageCells ==
  {Elem("cell", {<<"type", "image">>}, k) :
     k \in SeqUpTo({Editor, V, Img}, MaxImageKids)}

\* code cells, page breaks and text cells (a cell without type is a text
\* cell)
OtherCells ==
  {Elem("cell", {<<"type", "code">>}, k) :
     k \in {<<>>, <<Elem("input", {}, <<Editor>>)>>,
            <<Elem("input", {}, <<Editor>>),
              Elem("output", {}, <<Elem("mth", {}, <<V, H, V>>)>>)>>,
            <<Elem("output", {}, <<>>), Elem("output", {}, <<V>>),
              Elem("output", {}, <<V>>)>>,
            <<Elem("input", {}, <<>>)>>}}
    \cup {Elem("cell", {<<"type", "pagebreak">>}, <<>>), TextCellNode,
          Elem("cell", {}, <<Editor>>), Elem("cell", {}, <<>>)}

CellNodes == TextLikeCells \cup ImageCells \cup OtherCells

----------------------------------------------------------------------------
(* The state machine: a parser is constructed, then called *)

NoCall == [op |-> "none", nodes |-> <<>>, all |-> FALSE, len |-> 0,
           style |-> "", hasRoot |-> FALSE]

NoResult == Ret(Machine("", "", FALSE, 0, ConfigOf(0, [hasDigits |-> FALSE, displayedDigits |-> 0]), ""), <<>>)

\* MathParser::MathParser, lines 51-62, with a configuration store drawn
\* from cfgs; m_displayedDigits is not initialised and never read before
\* ParseText assigns it
InitWith(cfgs) ==
  /\ pc = "idle"
  /\ call = NoCall
  /\ result = NoResult
  /\ m_ParserStyle = "MC_TYPE_DEFAULT"
  /\ m_FracStyle = "FC_NORMAL"
  /\ m_highlight = FALSE
  /\ m_displayedDigits = 0
  /\ config \in cfgs
  /\ nullDeref \in {"trap", "elide"}

Start ==
  Machine(m_ParserStyle, m_FracStyle, m_highlight, m_displayedDigits,
          config, nullDeref)

\* a call ends: the fields are what the call left, a trap ends the program
Finish(c, r) ==
  /\ call' = c
  /\ result' = IF r.m.crashed THEN Ret(r.m, <<>>) ELSE r
  /\ pc' = IF r.m.crashed THEN "crashed" ELSE "done"
  /\ m_ParserStyle' = r.m.ps
  /\ m_FracStyle' = r.m.fs
  /\ m_highlight' = r.m.hl
  /\ m_displayedDigits' = r.m.digits
  /\ UNCHANGED <<config, nullDeref>>

ParseLineCall ==
  /\ pc = "idle"
  /\ \E root \in Documents, len \in Lengths, style \in ParserStyles :
       Finish([op |-> "ParseLine", nodes |-> root.kids, all |-> TRUE,
               len |-> len, style |-> style, hasRoot |-> root # NoNode],
              ParseLine([len |-> len, root |-> root], style, Start))

ParseTagCall ==
  /\ pc = "idle"
  /\ \E nodes \in SiblingLists \cup {<<c>> : c \in Composites}
                   \cup WrapperLists,
        all \in BOOLEAN :
       Finish([op |-> "ParseTag", nodes |-> nodes, all |-> all, len |-> 0,
               style |-> "", hasRoot |-> FALSE],
              ParseTag(nodes, 1, all, Start, <<>>))

ParseTextCall ==
  /\ pc = "idle"
  /\ \E node \in {NoNode} \cup {TextNode(l) : l \in Literals},
        style \in {"TS_NUMBER", "TS_VARIABLE", "TS_ERROR"} :
       Finish([op |-> "ParseText", nodes |-> <<node>>, all |-> FALSE,
               len |-> 0, style |-> style, hasRoot |-> FALSE],
              ParseText(node, style, Start, <<>>))

\* ParseCellTag is entered through ParseTag, whose branch for the tag
\* "cell" (lines 938-944) hands it the node
ParseCellTagCall ==
  /\ pc = "idle"
  /\ \E node \in CellNodes :
       Finish([op |-> "ParseCellTag", nodes |-> <<node>>, all |-> FALSE,
               len |-> 0, style |-> "", hasRoot |-> FALSE],
              ParseTag(<<node>>, 1, FALSE, Start, <<>>))

\* the caller takes the result; the parser is ready for the next call
Return ==
  /\ pc = "done"
  /\ pc' = "idle"
  /\ call' = NoCall
  /\ result' = NoResult
  /\ UNCHANGED <<m_ParserStyle, m_FracStyle, m_highlight, m_displayedDigits,
                 config, nullDeref>>

\* calls of ParseText: every digit cutoff
InitText == InitWith({ConfigOf(0, dc) : dc \in DigitConfigs})

NextText == ParseTextCall \/ Return

SpecText == InitText /\ [][NextText]_vars

\* calls of ParseTag
InitTag ==
  InitWith({ConfigOf(0, [hasDigits |-> FALSE, displayedDigits |-> 0]),
            ConfigOf(0, [hasDigits |-> TRUE, displayedDigits |-> 12])})

NextTag == ParseTagCall \/ Return

SpecTag == InitTag /\ [][NextTag]_vars

\* calls of ParseLine: every showLength selector
InitLine ==
  InitWith({ConfigOf(sl, [hasDigits |-> FALSE, displayedDigits |-> 0]) :
              sl \in 0..3})

NextLine == ParseLineCall \/ Return

SpecLine == InitLine /\ [][NextLine]_vars

\* calls of ParseCellTag
InitCell == InitWith({ConfigOf(0, [hasDigits |-> FALSE, displayedDigits |-> 0])})

NextCell == ParseCellTagCall \/ Return

SpecCell == InitCell /\ [][NextCell]_vars

Init == InitWith({ConfigOf(sl, dc) : sl \in 0..3, dc \in DigitConfigs})

Next ==
  ParseLineCall \/ ParseTagCall \/ ParseTextCall \/ ParseCellTagCall \/ Return

Spec == Init /\ [][Next]_vars

----------------------------------------------------------------------------
(* Vocabulary of the properties *)

IsParseTag == call.op = "ParseTag"

IsParseLine == call.op = "ParseLine"

IsParseText == call.op = "ParseText"

IsParseCellTag == call.op = "ParseCellTag"

\* what the handler of the i-th sibling of the call yields on its own
YieldOf(i) == Dispatch(call.nodes[i], Start, <<i>>).chain

\* the same cell object: allocated for the same node, of the same kind
InChain(c, chain) ==
  \E k \in 1..Len(chain) : chain[k].from = c.from /\ chain[k].kind = c.kind

IsUnknownLeaf(node) == node.tag = "x" /\ node.kids = <<>>

UnaryTags == {"q", "a", "cj", "p"}

\* the call hands one composite node to its handler
IsHandlerCall ==
  /\ IsParseTag
  /\ Len(call.nodes) = 1
  /\ call.nodes[1].tag \in CompositeTags

\* the children the handler of a composite node asks for in the source
RequiredKids(node) ==
  CASE node.tag \in {"f", "d", "e", "i", "at", "fn"} -> 2
    [] node.tag \in {"ie", "lm", "sm"} -> 3
    [] node.tag = "in" -> IF node.attrs = {} THEN 4 ELSE 2
    [] node.tag \in UnaryTags -> 1

----------------------------------------------------------------------------
(* C1 *)

\* C1: chain continuity.  When ParseTag runs with all = true over siblings
\* of which one yields no cell, every cell that a later sibling yields is
\* in the chain ParseTag returns.
C1_ChainContinuity ==
  (pc = "done" /\ IsParseTag /\ call.all) =>
    \A i, j \in 1..Len(call.nodes) :
      (i < j /\ YieldOf(i) = <<>>) =>
        \A k \in 1..Len(YieldOf(j)) : InChain(YieldOf(j)[k], result.chain)

----------------------------------------------------------------------------
(* C2 *)

----------------------------------------------------------------------------
(* C3 *)

\* C3: with the showLength selector 0, ParseLine on an input of 50001
\* characters returns exactly one text cell, the placeholder, with the
\* forced line break set, and never invokes ParseTag.
C3_OversizedPlaceholder ==
  (pc # "idle" /\ IsParseLine /\ config.showLength = 0 /\ call.len = 50001) =>
    /\ pc = "done"
    /\ Len(result.chain) = 1
    /\ result.chain[1].kind = "TextCell"
    /\ result.chain[1].value = <<" << Expression too long to display! >>">>
    /\ result.chain[1].forceBreakLine
    /\ result.m.calls = 0

\* C3 witness: such a call has returned, for a document that has children
C3_Witness ==
  /\ pc = "done" /\ IsParseLine
  /\ config.showLength = 0 /\ call.len = 50001
  /\ call.hasRoot /\ Len(call.nodes) = 2
  /\ Len(result.chain) = 1

----------------------------------------------------------------------------
(* C4 *)

\* C4: with the showLength selector 3 (unlimited) ParseLine never returns
\* the placeholder: every input is handed to ParseTag.
C4_UnlimitedParses ==
  (pc # "idle" /\ IsParseLine /\ config.showLength = 3) =>
    /\ result.chain # <<Placeholder>>
    /\ call.hasRoot => result.m.calls >= 1

----------------------------------------------------------------------------
(* C5 *)

\* the literal handed to ParseText and the text of the cell it built
Literal == call.nodes[1].content

BuiltValue == result.chain[1].value

\* the digit cutoff as the claims state it
DigitCutoff ==
  IF config.hasDigits
  THEN (IF config.displayedDigits > 10 THEN config.displayedDigits ELSE 10)
  ELSE 100

IsNumberCall ==
  pc = "done" /\ IsParseText /\ call.style = "TS_NUMBER" /\ Literal # <<>>

\* C5: ParseText with number style stores a digit string of length L > C,
\* C the digit cutoff, as its first left characters, "[N digits]" with
\* N = L - 2*left, and its last left characters, left = min(C div 3, 30);
\* a digit string with L <= C is stored unchanged; with C = 10 the literal
\* 12345678901234 is stored as 123[8 digits]234.
C5_TruncationFormula ==
  (IsNumberCall /\ IsDigitString(Literal)) =>
    LET L == Len(Literal)
        C == DigitCutoff
        left == IF C \div 3 < 30 THEN C \div 3 ELSE 30
    IN /\ L <= C => BuiltValue = Literal
       /\ L > C =>
            /\ Len(BuiltValue) > 2 * left + 9
            /\ SubSeq(BuiltValue, 1, left) = SubSeq(Literal, 1, left)
            /\ SubSeq(BuiltValue, left + 1, Len(BuiltValue) - left)
                 = <<"[">> \o IntToStr(L - 2 * left)
                     \o <<" ", "d", "i", "g", "i", "t", "s", "]">>
            /\ SubSeq(BuiltValue, Len(BuiltValue) - left + 1, Len(BuiltValue))
                 = SubSeq(Literal, L - left + 1, L)
       /\ (C = 10 /\ Literal = <<"1", "2", "3", "4", "5", "6", "7", "8",
                                 "9", "0", "1", "2", "3", "4">>) =>
            BuiltValue = <<"1", "2", "3", "[", "8", " ", "d", "i", "g", "i",
                           "t", "s", "]", "2", "3", "4">>

\* C5 witness: the example of the claim, a cutoff clamped to 10 and a
\* literal of 14 digits, has been truncated
C5_Witness ==
  /\ IsNumberCall
  /\ DigitCutoff = 10 /\ config.displayedDigits = 5
  /\ Literal = CountingLiteral(14)
  /\ Len(BuiltValue) = 16

----------------------------------------------------------------------------
(* C6 *)

\* C6: truncation is display-only.  The value of a number cell built from
\* a literal longer than the digit cutoff is still the complete literal.
C6_ValueKept ==
  (IsNumberCall /\ IsDigitString(Literal) /\ Len(Literal) > DigitCutoff) =>
    BuiltValue = Literal

----------------------------------------------------------------------------
(* C7 *)

\* C7: during one ParseLine call the unknown-tag warning is shown at most
\* once, whatever the number and depth of the nodes that yield nothing.
C7_WarnedAtMostOnce ==
  (pc # "idle" /\ IsParseLine) => result.m.warns <= 1

----------------------------------------------------------------------------
(* C8 *)

\* the siblings the call's loop reaches
Processed ==
  IF call.all THEN 1..Len(call.nodes)
  ELSE IF call.nodes = <<>> THEN {} ELSE {1}

\* C8: an unknown leaf element met by ParseTag yields no cell and has the
\* warning shown, if it was not shown before in the same parse, wherever
\* the element stands among its siblings.  Stated for the calls with
\* all = true, the ones whose loop can warn.
C8_UnknownLeafWarns ==
  (pc = "done" /\ IsParseTag /\ call.all) =>
    \A i \in Processed :
      IsUnknownLeaf(call.nodes[i]) =>
        /\ result.m.warns >= 1
        /\ \A k \in 1..Len(result.chain) : result.chain[k].from[1] # i

----------------------------------------------------------------------------
(* C9 *)

\* C9: the altCopy attribute of a node processed by ParseTag is set on the
\* cell produced from that node and on no other cell of the chain, also
\* when an earlier sibling contributed several cells.  Stated for the
\* calls with all = true, the ones that reach the altCopy step.
C9_AltCopyOnOwnCell ==
  (pc = "done" /\ IsParseTag /\ call.all) =>
    /\ \A i \in Processed :
         (HasAttribute(call.nodes[i], "altCopy") /\ YieldOf(i) # <<>>) =>
           \E k \in 1..Len(result.chain) :
             /\ result.chain[k].from = YieldOf(i)[1].from
             /\ result.chain[k].altCopyText
                  = GetAttribute(call.nodes[i], "altCopy", "")
    /\ \A k \in 1..Len(result.chain) :
         result.chain[k].altCopyText # "" =>
           \E i \in Processed :
             /\ HasAttribute(call.nodes[i], "altCopy")
             /\ YieldOf(i) # <<>>
             /\ result.chain[k].from = YieldOf(i)[1].from

----------------------------------------------------------------------------
(* C10 *)

\* C10 as claimed: with all = false ParseTag goes on to the first node
\* that produces a cell, so it returns a cell whenever some node from the
\* given one onward yields one.
C10_FirstProducedCell ==
  (pc = "done" /\ IsParseTag /\ ~call.all) =>
    ((\E i \in 1..Len(call.nodes) : YieldOf(i) # <<>>) =>
       result.chain # <<>>)

\* C10 as amended: with all = false ParseTag handles the given node alone.
\* It returns the cells of that node, NULL when the node yields none, and
\* consumes no sibling after it: no cell comes from a sibling and ParseTag
\* is entered as often as for the given node without siblings.
C10_GivenNodeOnly ==
  (pc = "done" /\ IsParseTag /\ ~call.all /\ call.nodes # <<>>) =>
    /\ \A k \in 1..Len(result.chain) : result.chain[k].from[1] = 1
    /\ (result.chain = <<>>) = (YieldOf(1) = <<>>)
    /\ Len(result.chain) = Len(YieldOf(1))
    /\ result.m.calls
         = ParseTag(<<call.nodes[1]>>, 1, FALSE, Start, <<>>).m.calls

\* C10 witness: the given node yields nothing, its sibling would yield a
\* cell, and ParseTag with all = false has returned NULL
C10_Witness ==
  /\ pc = "done" /\ IsParseTag /\ ~call.all
  /\ Len(call.nodes) >= 2
  /\ IsUnknownLeaf(call.nodes[1])
  /\ YieldOf(2) # <<>>
  /\ result.chain = <<>>

----------------------------------------------------------------------------
(* C11 *)

\* the node handed to ParseCellTag and its type attribute
CellNode == call.nodes[1]

CellType == GetAttribute(CellNode, "type", "text")

HasFold == \E k \in 1..Len(CellNode.kids) : CellNode.kids[k].tag = "fold"

\* the call returned one group cell
ReturnedGroup ==
  /\ pc = "done" /\ IsParseCellTag
  /\ Len(result.chain) = 1
  /\ result.chain[1].kind = "GroupCell"

\* C11: sectioning compatibility.  ParseCellTag on a node of type
\* "subsection" returns a sub-subsection group exactly when the attribute
\* sectioning_level is "4" and a subsection group for every other value,
\* the absent attribute included; on a node of type "subsubsection" it
\* returns a sub-subsection group whatever the level.  The call returns
\* whenever the node has no fold child.
C11_SectioningCompat ==
  (pc # "idle" /\ IsParseCellTag
     /\ CellType \in {"subsection", "subsubsection"}) =>
    /\ ~HasFold => pc = "done"
    /\ pc = "done" =>
         /\ ReturnedGroup
         /\ result.chain[1].variant =
              IF CellType = "subsubsection"
                   \/ (HasAttribute(CellNode, "sectioning_level")
                         /\ \A a \in CellNode.attrs :
                              a[1] = "sectioning_level" => a[2] = "4")
              THEN "GC_TYPE_SUBSUBSECTION"
              ELSE "GC_TYPE_SUBSECTION"

\* C11 witness: a subsection node of level 4 became a sub-subsection group
C11_Witness ==
  /\ ReturnedGroup
  /\ CellType = "subsection"
  /\ <<"sectioning_level", "4">> \in CellNode.attrs
  /\ result.chain[1].variant = "GC_TYPE_SUBSUBSECTION"

----------------------------------------------------------------------------
(* C12 *)

\* the positions of a chain reached from position k by following
\* m_nextToDraw, k itself not counted
RECURSIVE DrawnAfter(_, _)
DrawnAfter(chain, k) ==
  IF k < Len(chain) /\ chain[k].nextToDraw = "m_next"
  THEN {k + 1} \cup DrawnAfter(chain, k + 1)
  ELSE {}

\* the folded tree and the output chain of the group the call returned
HiddenTree == result.chain[1].slots[2].chain

Output == result.chain[1].slots[1].chain

\* C12: the draw order never holds a cell marked hidden.  In the folded
\* tree ParseCellTag has built under a fold child, no cell with m_isHidden
\* set is reached from the head of the tree by following m_nextToDraw.
C12_NoHiddenInDrawOrder ==
  ReturnedGroup =>
    \A k \in DrawnAfter(HiddenTree, 1) : ~HiddenTree[k].hidden

----------------------------------------------------------------------------
(* C13 *)

\* the node at a path below a list of siblings
RECURSIVE NodeAt(_, _)
NodeAt(nodes, path) ==
  IF Len(path) = 1 THEN nodes[path[1]]
  ELSE NodeAt(nodes[path[1]].kids, Tail(path))

\* the node at the path, or one of its ancestors, is a highlight wrapper
UnderHighlight(nodes, path) ==
  \E n \in 1..Len(path) : NodeAt(nodes, SubSeq(path, 1, n)).tag = "hl"

\* C13: the style context is stack-scoped.  Every invocation of ParseTag,
\* nested ones included, returns with m_highlight and m_FracStyle as they
\* were on its entry, so after a call the fields are what the constructor
\* left; a cell of the returned chain is highlighted only if it was built
\* inside a highlight wrapper, and a fraction of the returned chain never has the
\* derivative style, which holds only inside the first child of a
\* derivative.
C13_StyleContextScoped ==
  (pc = "done" /\ IsParseTag) =>
    /\ result.m.unrestored = 0
    /\ m_highlight = FALSE
    /\ m_FracStyle = "FC_NORMAL"
    /\ \A k \in 1..Len(result.chain) :
         /\ result.chain[k].hl => UnderHighlight(call.nodes, result.chain[k].from)
         /\ result.chain[k].kind = "FracCell" =>
              result.chain[k].variant = "FC_NORMAL"

\* C13 witness: a derivative whose first child holds a fraction and a
\* highlight wrapper, followed by a fraction: the inner fraction has the
\* derivative style, the inner variable is highlighted, the fraction after
\* the derivative has neither
C13_Witness ==
  /\ pc = "done" /\ IsParseTag /\ call.all
  /\ call.nodes = <<DF, F2>>
  /\ Len(result.chain) = 2
  /\ result.chain[1].slots[1].chain[1].variant = "FC_DIFF"
  /\ result.chain[1].slots[1].chain[2].hl
  /\ result.chain[2].variant = "FC_NORMAL"
  /\ ~result.chain[2].hl
  /\ result.m.unrestored = 0

----------------------------------------------------------------------------
(* C14 *)

\* the call hands one sum node to ParseSumTag
IsSumCall == IsHandlerCall /\ call.nodes[1].tag = "sm"

IsLsum == GetAttribute(call.nodes[1], "type", "sum") = "lsum"

\* the chain is what the i-th child of the node yields: one text cell for
\* a variable, nothing for an unknown leaf
BuiltFromKid(chain, i) ==
  IF call.nodes[1].kids[i] = V
  THEN /\ Len(chain) = 1
       /\ chain[1].from = <<1, i>>
       /\ chain[1].value = <<"a">>
  ELSE chain = <<>>

\* C14 as claimed: given an "lsum" node with exactly two children, lower
\* bound and base, ParseSumTag returns a sum cell whose under slot is built
\* from the first child and whose base slot from the second, with no upper
\* bound.
C14_LsumOfTwoChildren ==
  (pc # "idle" /\ IsSumCall /\ IsLsum /\ Len(call.nodes[1].kids) = 2) =>
    /\ pc = "done"
    /\ Len(result.chain) = 1
    /\ result.chain[1].kind = "SumCell"
    /\ BuiltFromKid(result.chain[1].slots[1].chain, 1)
    /\ result.chain[1].slots[2].chain = <<>>
    /\ BuiltFromKid(result.chain[1].slots[3].chain, 2)

\* C14 as amended: ParseSumTag asks for three children whatever the type.
\* With fewer it returns no cell.  With three or more it returns one sum
\* cell whose under slot is built from the first child and whose base slot
\* from the third; the over slot is built from the second child, except
\* for the type "lsum", where the second child is skipped unparsed and the
\* over slot stays empty.
C14_SumOfThreeChildren ==
  (pc # "idle" /\ IsSumCall) =>
    /\ pc = "done"
    /\ IF Len(call.nodes[1].kids) < 3 THEN result.chain = <<>>
       ELSE /\ Len(result.chain) = 1
            /\ result.chain[1].kind = "SumCell"
            /\ BuiltFromKid(result.chain[1].slots[1].chain, 1)
            /\ BuiltFromKid(result.chain[1].slots[3].chain, 3)
            /\ IF IsLsum
               THEN /\ result.chain[1].slots[2].chain = <<>>
                    /\ result.m.calls = 3
               ELSE /\ BuiltFromKid(result.chain[1].slots[2].chain, 2)
                    /\ result.m.calls = 4

\* C14 witness: an "lsum" node with three children became a sum cell
\* without upper bound, its second child never parsed
C14_Witness ==
  /\ pc = "done" /\ IsSumCall /\ IsLsum
  /\ call.nodes[1].kids = <<V, V, V>>
  /\ result.chain[1].slots[2].chain = <<>>
  /\ result.chain[1].slots[3].chain[1].from = <<1, 3>>
  /\ result.m.calls = 3

----------------------------------------------------------------------------
(* C15 *)

\* the call hands ParseTag one line wrapper
IsLineWrapperCall ==
  /\ IsParseTag
  /\ Len(call.nodes) = 1
  /\ call.nodes[1].tag \in {"mth", "line"}

\* C15: a line wrapper (mth, line) always contributes a non-empty chain
\* that begins with a forced line break.  When its children yield cells,
\* the first of them has forceBreakLine and breakLine set; when they yield
\* nothing, the contribution is exactly one text cell holding one space,
\* which has the two flags set as well.
C15_LineWrapperBreaks ==
  (pc = "done" /\ IsLineWrapperCall) =>
    /\ result.chain # <<>>
    /\ result.chain[1].forceBreakLine
    /\ result.chain[1].breakLine
    /\ (\A k \in 1..Len(call.nodes[1].kids) :
          IsUnknownLeaf(call.nodes[1].kids[k])) =>
         /\ Len(result.chain) = 1
         /\ result.chain[1].kind = "TextCell"
         /\ result.chain[1].value = <<" ">>

----------------------------------------------------------------------------
(* C16 *)

SectioningTypes == {"title", "section", "subsection", "subsubsection"}

\* the positions of the fold children of the node
FoldPositions ==
  {k \in 1..Len(CellNode.kids) : CellNode.kids[k].tag = "fold"}

\* C16: for a title or sectioning block with one fold child that has
\* n >= 1 children, ParseCellTag builds one chain of the n cells in
\* document order, consecutive cells linked by m_next and m_nextToDraw (and
\* back by m_previous and m_previousToDraw, which line 169 sets with
\* them), and hands it to HideTree exactly once; for a block without fold
\* child HideTree is never called and the block has no folded tree.
C16_FoldedChain ==
  (pc # "idle" /\ IsParseCellTag /\ CellType \in SectioningTypes) =>
    /\ FoldPositions = {} =>
         /\ ReturnedGroup
         /\ result.m.hides = 0
         /\ HiddenTree = <<>>
    /\ \A k \in FoldPositions :
         (FoldPositions = {k} /\ CellNode.kids[k].kids # <<>>) =>
           /\ ReturnedGroup
           /\ result.m.hides = 1
           /\ Len(HiddenTree) = Len(CellNode.kids[k].kids)
           /\ \A j \in 1..Len(HiddenTree) :
                /\ HiddenTree[j].from = <<1, k, j>>
                /\ j < Len(HiddenTree) => HiddenTree[j].nextToDraw = "m_next"

----------------------------------------------------------------------------
(* C17 *)

\* C17: numeric truncation never lengthens what is shown.  For every
\* number literal longer than the digit cutoff, the string ParseText stores
\* is no longer than the literal.
C17_TruncationNeverLengthens ==
  (IsNumberCall /\ Len(Literal) > DigitCutoff) =>
    Len(BuiltValue) <= Len(Literal)

----------------------------------------------------------------------------
(* C18 *)

\* every node of the call is one of the sibling alphabet, whose handlers
\* dereference no cell pointer: the altCopy step of lines 987-988 is the
\* only place of such a call that does
IsSiblingCall == IsParseTag /\ call.nodes \in SiblingLists

\* C18: ParseTag never applies the alternate copy text through an absent
\* cell.  Whenever the altCopy step runs for a node that carries the
\* attribute, the cursor is not NULL: no call traps there and none
\* dereferences a null pointer.
C18_AltCopyCellPresent ==
  (pc # "idle" /\ IsSiblingCall) =>
    /\ pc = "done"
    /\ result.m.derefs = 0

----------------------------------------------------------------------------
(* C19 *)

\* the call hands ParseCellTag an image block
IsImageCall == IsParseCellTag /\ CellType = "image"

\* the cells the children that are no editor yield, each child handled on
\* its own, from the k-th child on
RECURSIVE OwnCells(_, _)
OwnCells(kids, k) ==
  IF k > Len(kids) THEN 0
  ELSE (IF kids[k].tag = "editor" THEN 0
        ELSE Len(Dispatch(kids[k], Start, <<1, k>>).chain))
         + OwnCells(kids, k + 1)

\* C19: in an image block every child that is no editor contributes its
\* cells to the output chain exactly once.  The output holds as many cells
\* as those children yield, each built from a child that is no editor and
\* from no child twice.
C19_ImageOutputOnce ==
  (pc # "idle" /\ IsImageCall) =>
    /\ ReturnedGroup
    /\ Len(Output) = OwnCells(CellNode.kids, 1)
    /\ \A i \in 1..Len(Output) :
         /\ CellNode.kids[Output[i].from[2]].tag # "editor"
         /\ \A j \in 1..Len(Output) :
              Output[i].from = Output[j].from => i = j

----------------------------------------------------------------------------
(* C20 *)

\* the cutoffs of the selectors 0, 1 and 2 as the claim states them
StatedCutoff ==
  CASE config.showLength = 0 -> 50000
    [] config.showLength = 1 -> 500000
    [] config.showLength = 2 -> 5000000

\* C20: with the showLength selectors 0, 1 and 2 ParseLine parses every
\* input whose length does not exceed the cutoff and returns the
\* placeholder only for inputs strictly longer than the cutoff; an input
\* of exactly the cutoff length is parsed.
C20_CutoffInclusive ==
  (pc # "idle" /\ IsParseLine /\ config.showLength \in 0..2) =>
    IF call.len <= StatedCutoff
    THEN /\ result.chain # <<Placeholder>>
         /\ call.hasRoot => result.m.calls >= 1
    ELSE /\ result.chain = <<Placeholder>>
         /\ result.m.calls = 0

====
